---- MODULE Spec2Model ----
(***************************************************************************)
(* A model of the capture-file reader and SMPP PDU parser                  *)
(* (services/parser: src/unnamed/part_000, constants: src/constants.ts).   *)
(*                                                                         *)
(* Buffers are sequences of bytes (0..255); the byte at JavaScript offset  *)
(* i is buf[i + 1].  A 32-bit unsigned value is the pair <<hi, lo>> of its *)
(* two 16-bit halves, so that values such as 0xFFFFFFFF and 0x80000001 are *)
(* exact.  A string is a sequence of one-character strings.                *)
(***************************************************************************)
EXTENDS Integers, Sequences, FiniteSets, TLC

VARIABLES
  pcapBuffer,     \* extractAllTcpPayloads: the capture file's bytes
  capPc,          \* parsePcapFile: "none" | "idle" | "loop" | "resolved" | "rejected"
  capError,       \* the error the promise is rejected with, or "" when none
  littleEndian,   \* extractAllTcpPayloads: byte order selected by the magic number
  pcapOffset,     \* extractAllTcpPayloads: `offset`, the record cursor
  packetIndex,    \* extractAllTcpPayloads: `packetIndex`
  packets,        \* extractAllTcpPayloads: `packets`
  maxRead,        \* highest byte offset a DataView getter was asked for (-1: none)
  recordLog,      \* one entry per record header the loop has read
  tcpPayload,     \* parseMultipleSmppPdus: the payload being scanned
  input,          \* how tcpPayload was built (garbage and PDU descriptors)
  scanPc,         \* parseMultipleSmppPdus: "idle" | "scan" | "tlv" | "done"
  pduOffset,      \* parseMultipleSmppPdus: `offset`, the scan cursor
  allPdus,        \* parseMultipleSmppPdus: `allPdus`
  pduBuffer,      \* parseSmppPdu: `pduBuffer`, the slice being decoded
  readerOffset,   \* BufferReader.offset
  header,         \* parseSmppPdu: `header` of the latest call
  body,           \* parseDeliverSmBody: `body`, the fixed fields read so far
  message_content,\* parseDeliverSmBody: `message_content` (None or Some(bytes))
  tlvs,           \* parseDeliverSmBody: `tlvs`
  pduSlices,      \* for each entry of allPdus, <<start, end>> of its slice
  mismatchWarned, \* parseSmppPdu: the length-mismatch warning was logged
  file,           \* App: `file` (None, or Some(bytes of the selected file))
  packetsState,   \* App: `packets`
  packetsFile,    \* the file packetsState was computed from (None: from none)
  selectedPacketIndex, \* App: `selectedPacketIndex` (None or Some(index))
  detailedPacketData,  \* App: `detailedPacketData` (None or Some(list))
  isLoading,      \* App: `isLoading`
  error,          \* App: `error` (None or Some(message))
  parsePc,        \* handleParse: "idle" | "awaiting" (the await of line 39)
  selectionsLeft, \* file selections the user still makes
  parsesLeft      \* clicks on the parse button the user still makes

capVars == <<pcapBuffer, capPc, capError, littleEndian, pcapOffset, packetIndex,
             packets, maxRead, recordLog>>
scanVars == <<tcpPayload, input, scanPc, pduOffset, allPdus, pduBuffer,
              readerOffset, header, body, message_content, tlvs, pduSlices,
              mismatchWarned>>
uiVars == <<file, packetsState, packetsFile, selectedPacketIndex,
            detailedPacketData, isLoading, error, parsePc, selectionsLeft,
            parsesLeft>>
vars == <<capVars, scanVars, uiVars>>

Null == "null"

(***************************************************************************)
(* Bytes, DataView reads and 32-bit values                                 *)
(***************************************************************************)
Min(a, b) == IF a < b THEN a ELSE b
Max(a, b) == IF a > b THEN a ELSE b

ByteAt(buf, i) == buf[i + 1]

\* DataView getters throw a RangeError unless [off, off + n) lies in the view.
InView(buf, off, n) == off >= 0 /\ off + n <= Len(buf)

\* ArrayBuffer.slice(a, b) for 0 <= a: the end is clamped to the buffer.
Slice(buf, a, b) == SubSeq(buf, a + 1, Min(b, Len(buf)))

GetUint16(buf, off) == ByteAt(buf, off) * 256 + ByteAt(buf, off + 1)

GetUint32(buf, off, le) ==
  IF le
    THEN <<ByteAt(buf, off + 3) * 256 + ByteAt(buf, off + 2),
           ByteAt(buf, off + 1) * 256 + ByteAt(buf, off)>>
    ELSE <<ByteAt(buf, off) * 256 + ByteAt(buf, off + 1),
           ByteAt(buf, off + 2) * 256 + ByteAt(buf, off + 3)>>

\* u > n, for a 32-bit value u and an integer n.
U32Gt(u, n) ==
  \/ n < 0
  \/ u[1] > n \div 65536
  \/ (u[1] = n \div 65536 /\ u[2] > n % 65536)

\* The number a 32-bit value stands for (used only where it is known to be
\* at most a buffer length).
Num(u) == u[1] * 65536 + u[2]

(***************************************************************************)
(* constants.ts                                                            *)
(***************************************************************************)
\* COMMAND_ID_MAP[id], Null when the id is no key of the table.
COMMAND_ID_MAP(id) ==
  CASE id = <<0, 1>> -> "bind_receiver"
    [] id = <<32768, 1>> -> "bind_receiver_resp"
    [] id = <<0, 2>> -> "deliver_sm"
    [] id = <<32768, 2>> -> "deliver_sm_resp"
    [] id = <<0, 3>> -> "unbind"
    [] id = <<32768, 3>> -> "unbind_resp"
    [] id = <<0, 4>> -> "enquire_link"
    [] id = <<32768, 4>> -> "enquire_link_resp"
    [] OTHER -> Null

\* Object.keys(COMMAND_ID_MAP).map(Number)
knownCommandIds ==
  {<<0, 1>>, <<32768, 1>>, <<0, 2>>, <<32768, 2>>,
   <<0, 3>>, <<32768, 3>>, <<0, 4>>, <<32768, 4>>}

(***************************************************************************)
(* extractAllTcpPayloads: the global header                                *)
(***************************************************************************)
GlobalHeaderLen == 24
RecordHeaderLen == 16
EthernetHeaderLen == 14
MinSmppHeader == 16

MagicBigEndian == <<41394, 50132>>      \* 0xa1b2c3d4
MagicLittleEndian == <<54467, 45729>>   \* 0xd4c3b2a1

\* line 312
TooShortForGlobalHeader(buf) == Len(buf) < GlobalHeaderLen

\* (the else branch taken for every other value)
MagicAcceptedAny(magic) == TRUE

\* lines 317-323: the magic number is one of the two accepted values
MagicAccepted(magic) == magic = MagicBigEndian \/ magic = MagicLittleEndian

(***************************************************************************)
(* extractAllTcpPayloads: one iteration of the record loop (lines 329-401) *)
(***************************************************************************)
\* line 340: the record ends before the IPv4 header starts
EndsBeforeIpHeader(ipHeaderOffset, packetStart, incl_len) ==
  ipHeaderOffset >= packetStart + incl_len

\* (UDP let through the protocol filter)
IsTcpOrUdp(ipProtocol) == ipProtocol = 6 \/ ipProtocol = 17

\* line 354: the record is kept only for ipProtocol 6
IsTcp(ipProtocol) == ipProtocol = 6

\* (the headers not taken off the captured length)
PayloadLengthWithHeaders(incl_len, totalHeaderLength) == incl_len

\* line 371
PayloadLength(incl_len, totalHeaderLength) == incl_len - totalHeaderLength

\* line 373
ExceedsMinSmppHeader(payloadLength) == payloadLength > MinSmppHeader

\* (the record header left out of the step)
NextRecordOffsetNoHeader(offset, incl_len) == offset + incl_len

\* lines 341, 347, 355, 401: offset += 16 + incl_len
NextRecordOffset(offset, incl_len) == offset + RecordHeaderLen + incl_len

\* lines 378-387: the info field, peeked from the payload
PacketInfo(payload) ==
  IF ~InView(payload, 0, 4) \/ ~InView(payload, 4, 4)
    THEN <<"SMPP Data">>
    ELSE LET cmdLen == GetUint32(payload, 0, FALSE)
             cmdId == GetUint32(payload, 4, FALSE)
         IN IF ~U32Gt(cmdLen, Len(payload)) /\ Num(cmdLen) >= 16
              THEN LET name == IF COMMAND_ID_MAP(cmdId) # Null
                                 THEN <<COMMAND_ID_MAP(cmdId)>>
                                 ELSE <<"Unknown Command", cmdId>>
                   IN IF Num(cmdLen) < Len(payload)
                        THEN name \o <<" (Multiple)">>
                        ELSE name
              ELSE <<"SMPP Data">>

Outcome(kind, incl, hi, next, pkt, po) ==
  [kind |-> kind, incl_len |-> incl, hi |-> hi, next |-> next, pkt |-> pkt,
   payloadOffset |-> po]

\* What one pass through the loop body does at record offset `offset`:
\*   kind  "break" | "skip" | "emit" | "throw" (a DataView RangeError)
\*   hi    the highest byte offset a getter was asked for in this pass
\*   next  the new value of `offset` ("skip" and "emit")
\*   pkt   the PacketSummary pushed ("emit")
ReadRecord(buf, offset, le, index) ==
  IF Len(buf) < offset + 16
    THEN Outcome("break", <<0, 0>>, -1, offset, Null, -1)
    ELSE
      LET incl == GetUint32(buf, offset + 8, le)
          packetStart == offset + 16
      IN
      IF U32Gt(incl, Len(buf) - packetStart)
        THEN Outcome("break", incl, offset + 11, offset, Null, -1)
        ELSE
          LET incl_len == Num(incl)
              next == NextRecordOffset(offset, incl_len)
              ipHeaderOffset == packetStart + EthernetHeaderLen
          IN
          IF EndsBeforeIpHeader(ipHeaderOffset, packetStart, incl_len)
            THEN Outcome("skip", incl, offset + 11, next, Null, -1)
          ELSE IF GetUint16(buf, packetStart + 12) # 2048
            THEN Outcome("skip", incl, packetStart + 13, next, Null, -1)
          ELSE IF ~InView(buf, ipHeaderOffset + 9, 1)
            THEN Outcome("throw", incl, ipHeaderOffset + 9, offset, Null, -1)
          ELSE IF ~IsTcp(ByteAt(buf, ipHeaderOffset + 9))
            THEN Outcome("skip", incl, ipHeaderOffset + 9, next, Null, -1)
          ELSE IF ~InView(buf, ipHeaderOffset + 12, 8)
            THEN Outcome("throw", incl, Max(ipHeaderOffset + 12, Len(buf)),
                         offset, Null, -1)
          ELSE
            LET ipHeaderLength == (ByteAt(buf, ipHeaderOffset) % 16) * 4
                tcpHeaderOffset == ipHeaderOffset + ipHeaderLength
                seen == ipHeaderOffset + 19
            IN
            IF ~InView(buf, tcpHeaderOffset, 2)
              THEN Outcome("throw", incl, Max(seen, tcpHeaderOffset + 1),
                           offset, Null, -1)
            ELSE IF ~InView(buf, tcpHeaderOffset + 2, 2)
              THEN Outcome("throw", incl, Max(seen, tcpHeaderOffset + 3),
                           offset, Null, -1)
            ELSE IF ~InView(buf, tcpHeaderOffset + 12, 1)
              THEN Outcome("throw", incl, Max(seen, tcpHeaderOffset + 12),
                           offset, Null, -1)
            ELSE
              LET dataOffsetByte == ByteAt(buf, tcpHeaderOffset + 12)
                  tcpHeaderLength == (dataOffsetByte \div 16) * 4
                  payloadOffset == tcpHeaderOffset + tcpHeaderLength
                  totalHeaderLength == payloadOffset - packetStart
                  payloadLength == PayloadLength(incl_len, totalHeaderLength)
                  hi == Max(seen, tcpHeaderOffset + 12)
              IN
              IF ExceedsMinSmppHeader(payloadLength)
                THEN
                  LET payload == Slice(buf, payloadOffset,
                                       payloadOffset + payloadLength)
                  IN Outcome("emit", incl, hi, next,
                       [index |-> index + 1,
                        sourceIp |-> SubSeq(buf, ipHeaderOffset + 13,
                                            ipHeaderOffset + 16),
                        destIp |-> SubSeq(buf, ipHeaderOffset + 17,
                                          ipHeaderOffset + 20),
                        sourcePort |-> GetUint16(buf, tcpHeaderOffset),
                        destPort |-> GetUint16(buf, tcpHeaderOffset + 2),
                        length |-> payloadLength,
                        info |-> PacketInfo(payload),
                        payload |-> payload],
                       payloadOffset)
                ELSE Outcome("skip", incl, hi, next, Null, -1)

LogEntry(offset, o, index) ==
  [start |-> offset, incl_len |-> o.incl_len, outcome |-> o.kind,
   index |-> index, payloadOffset |-> o.payloadOffset]

\* parsePcapFile, reader.onload: extractAllTcpPayloads up to the loop
\* (lines 308-326); a throw rejects the promise (line 300).
ReadGlobalHeader ==
  /\ capPc = "idle"
  /\ IF TooShortForGlobalHeader(pcapBuffer)
       THEN /\ capPc' = "rejected"
            /\ capError' = "Invalid PCAP file: too short for global header."
            /\ UNCHANGED <<littleEndian, pcapOffset, maxRead>>
       ELSE LET magic_number == GetUint32(pcapBuffer, 0, FALSE)
            IN /\ maxRead' = 3
               /\ IF MagicAccepted(magic_number)
                    THEN /\ littleEndian' = (magic_number = MagicLittleEndian)
                         /\ pcapOffset' = GlobalHeaderLen
                         /\ capPc' = "loop"
                         /\ capError' = ""
                    ELSE /\ capPc' = "rejected"
                         /\ capError' = "Unsupported or invalid PCAP file: magic number is incorrect"
                         /\ UNCHANGED <<littleEndian, pcapOffset>>
  /\ UNCHANGED <<pcapBuffer, packetIndex, packets, recordLog>>
  /\ UNCHANGED scanVars
  /\ UNCHANGED uiVars

\* line 328 false, or a break (lines 329, 334): return packets, resolve
RecordLoopExit ==
  /\ capPc = "loop"
  /\ \/ ~(pcapOffset < Len(pcapBuffer))
     \/ ReadRecord(pcapBuffer, pcapOffset, littleEndian, packetIndex).kind = "break"
  /\ capPc' = "resolved"
  /\ maxRead' = IF pcapOffset < Len(pcapBuffer)
                  THEN Max(maxRead, ReadRecord(pcapBuffer, pcapOffset,
                                               littleEndian, packetIndex).hi)
                  ELSE maxRead
  /\ UNCHANGED <<pcapBuffer, capError, littleEndian, pcapOffset, packetIndex,
                 packets, recordLog>>
  /\ UNCHANGED scanVars
  /\ UNCHANGED uiVars

\* a record that is passed over (lines 340-343, 346-349, 354-357, 373 false)
RecordSkip ==
  /\ capPc = "loop"
  /\ pcapOffset < Len(pcapBuffer)
  /\ LET o == ReadRecord(pcapBuffer, pcapOffset, littleEndian, packetIndex)
     IN /\ o.kind = "skip"
        /\ pcapOffset' = o.next
        /\ maxRead' = Max(maxRead, o.hi)
        /\ recordLog' = Append(recordLog, LogEntry(pcapOffset, o, 0))
  /\ UNCHANGED <<pcapBuffer, capPc, capError, littleEndian, packetIndex, packets>>
  /\ UNCHANGED scanVars
  /\ UNCHANGED uiVars

\* a record whose payload is kept (lines 373-401)
RecordEmit ==
  /\ capPc = "loop"
  /\ pcapOffset < Len(pcapBuffer)
  /\ LET o == ReadRecord(pcapBuffer, pcapOffset, littleEndian, packetIndex)
     IN /\ o.kind = "emit"
        /\ packetIndex' = packetIndex + 1
        /\ packets' = Append(packets, o.pkt)
        /\ pcapOffset' = o.next
        /\ maxRead' = Max(maxRead, o.hi)
        /\ recordLog' = Append(recordLog, LogEntry(pcapOffset, o, packetIndex + 1))
  /\ UNCHANGED <<pcapBuffer, capPc, capError, littleEndian>>
  /\ UNCHANGED scanVars
  /\ UNCHANGED uiVars

\* a getter asked for a byte outside the view: the RangeError leaves
\* extractAllTcpPayloads and rejects the promise (lines 299-300)
RecordThrow ==
  /\ capPc = "loop"
  /\ pcapOffset < Len(pcapBuffer)
  /\ LET o == ReadRecord(pcapBuffer, pcapOffset, littleEndian, packetIndex)
     IN /\ o.kind = "throw"
        /\ maxRead' = Max(maxRead, o.hi)
        /\ recordLog' = Append(recordLog, LogEntry(pcapOffset, o, 0))
  /\ capPc' = "rejected"
  /\ capError' = "RangeError"
  /\ UNCHANGED <<pcapBuffer, littleEndian, pcapOffset, packetIndex, packets>>
  /\ UNCHANGED scanVars
  /\ UNCHANGED uiVars

(***************************************************************************)
(* Strings: bufferToHex, and String.split / parseInt as line 182 uses them *)
(***************************************************************************)
HexDigits ==
  <<"0", "1", "2", "3", "4", "5", "6", "7", "8", "9", "a", "b", "c", "d", "e", "f">>

\* An optional value is a sequence of length 0 (absent: null, undefined,
\* NaN) or 1 (present).
None == <<>>
Some(x) == <<x>>

\* b.toString(16).padStart(2, '0'), for a byte b
ToHex2(b) == <<HexDigits[(b \div 16) + 1], HexDigits[(b % 16) + 1]>>

\* n.toString(16).padStart(4, '0'), for 0 <= n < 65536
ToHex4(n) == ToHex2(n \div 256) \o ToHex2(n % 256)

RECURSIVE Join(_, _)
\* Array.prototype.join
Join(parts, sep) ==
  IF parts = <<>> THEN <<>>
  ELSE IF Len(parts) = 1 THEN parts[1]
  ELSE parts[1] \o sep \o Join(Tail(parts), sep)

\* line 65
bufferToHex(buffer) ==
  Join([i \in 1..Len(buffer) |-> ToHex2(buffer[i])], <<" ">>)

RECURSIVE SplitFrom(_, _, _)
\* the pieces of s after position i - 1, cur being the piece in progress
SplitFrom(s, i, cur) ==
  IF i > Len(s) THEN <<cur>>
  ELSE IF s[i] = " " THEN <<cur>> \o SplitFrom(s, i + 1, <<>>)
  ELSE SplitFrom(s, i + 1, Append(cur, s[i]))

\* s.split(' '): the empty string splits into one empty piece
Split(s) == SplitFrom(s, 1, <<>>)

HexValue(c) == CHOOSE v \in 0..15 : HexDigits[v + 1] = c

IsHexDigit(c) == \E v \in 0..15 : HexDigits[v + 1] = c

RECURSIVE ParseHexPrefix(_, _, _)
ParseHexPrefix(s, i, acc) ==
  IF i > Len(s) \/ ~IsHexDigit(s[i]) THEN acc
  ELSE ParseHexPrefix(s, i + 1, acc * 16 + HexValue(s[i]))

\* parseInt(s, 16): NaN (None) when s does not start with a hex digit
ParseInt16(s) ==
  IF s = <<>> \/ ~IsHexDigit(s[1]) THEN None ELSE Some(ParseHexPrefix(s, 1, 0))

\* an element of new Uint8Array(array): NaN becomes 0, numbers wrap
ToUint8(x) == IF x = None THEN 0 ELSE x[1] % 256

\* line 182: new Uint8Array(value.split(' ').map(s => parseInt(s, 16)))
HexToBytes(value) ==
  LET pieces == Split(value)
  IN [i \in 1..Len(pieces) |-> ToUint8(ParseInt16(pieces[i]))]

(***************************************************************************)
(* constants.ts: DATA_CODING_MAP, ESM_CLASS_MAP                             *)
(***************************************************************************)
DATA_CODING_MAP(dc) ==
  CASE dc = 0 -> "Default (GSM 7-bit)"
    [] dc = 1 -> "IA5 (ASCII)"
    [] dc = 2 -> "8-bit binary"
    [] dc = 3 -> "Latin 1 (ISO-8859-1)"
    [] dc = 4 -> "UTF-8"
    [] dc = 5 -> "JIS"
    [] dc = 6 -> "Cyrillic (ISO-8859-5)"
    [] dc = 7 -> "Latin/Hebrew (ISO-8859-8)"
    [] dc = 8 -> "UCS-2 (ISO/IEC-10646)"
    [] dc = 9 -> "Pictogram Encoding"
    [] dc = 10 -> "ISO-2022-JP (Music Codes)"
    [] dc = 13 -> "Extended Kanji JIS"
    [] dc = 14 -> "KS C 5601"
    [] OTHER -> Null

\* the mask 0b00111100 leaves the cases 0x40, 0x60 and 0x80 without a match
ESM_CLASS_MAP(value) ==
  LET messageMode == value % 4
      messageType == ((value \div 4) % 16) * 4
      modeStr == CASE messageMode = 0 -> "Default Mode"
                   [] messageMode = 3 -> "Store and Forward"
                   [] OTHER -> "Unknown Mode"
      typeStr == CASE messageType = 0 -> "Default Message"
                   [] messageType = 4 -> "Delivery Receipt"
                   [] messageType = 8 -> "Delivery Acknowledgement"
                   [] OTHER -> "Unknown Type"
  IN <<typeStr, modeStr>>

(***************************************************************************)
(* decodeMessage (lines 36-62).  A TextDecoder's output is kept as the     *)
(* decoder's label with the bytes it was given; the two hex renderings     *)
(* carry the hex text.                                                     *)
(***************************************************************************)
decodeMessage(messageBuffer, dataCoding) ==
  [scheme |-> IF DATA_CODING_MAP(dataCoding) # Null
                THEN <<DATA_CODING_MAP(dataCoding)>>
                ELSE <<"Unknown", dataCoding>>,
   content |-> CASE dataCoding = 8 -> "utf-16be"
                 [] dataCoding = 3 -> "iso-8859-1"
                 [] dataCoding = 4 -> "utf-8"
                 [] dataCoding = 0 -> "GSM 7-bit encoded data"
                 [] OTHER -> "Binary Data",
   bytes |-> messageBuffer,
   hex |-> IF dataCoding \in {8, 3, 4} THEN None
           ELSE Some(bufferToHex(messageBuffer))]

\* line 200
NoMessageContent ==
  [scheme |-> <<>>, content |-> "(No message content)", bytes |-> <<>>,
   hex |-> None]

(***************************************************************************)
(* BufferReader                                                            *)
(***************************************************************************)
\* line 137
bytesRemaining(buf, offset) == Len(buf) - offset

RECURSIVE CStringEnd(_, _)
\* lines 101-103: the offset readCString stops at (a 0 byte, or the end)
CStringEnd(buf, offset) ==
  IF offset < Len(buf) /\ ByteAt(buf, offset) # 0
    THEN CStringEnd(buf, offset + 1)
    ELSE offset

\* readCString (lines 99-109): the bytes decoded, and the offset afterwards
readCString(buf, offset) ==
  LET end == CStringEnd(buf, offset)
  IN [str |-> SubSeq(buf, offset + 1, end),
      offset |-> IF end < Len(buf) THEN end + 1 ELSE end]

\* (the 4-byte header not taken off the remaining bytes)
TlvFitsIgnoringHeader(length, remaining) == ~(length > remaining)

\* line 126: the declared length does not exceed what follows the 4-byte header
TlvFits(length, remaining) == ~(length > remaining - 4)

\* readTlv (lines 117-135): kind "null", kind "tlv" with the TLV read at
\* `offset`, or kind "RangeError" (readBytes, line 112, asked for bytes past
\* the buffer)
readTlv(buf, offset) ==
  IF bytesRemaining(buf, offset) < 4 THEN [kind |-> "null"]
  ELSE LET tag == GetUint16(buf, offset)
           length == GetUint16(buf, offset + 2)
       IN IF ~TlvFits(length, bytesRemaining(buf, offset)) THEN [kind |-> "null"]
          ELSE IF ~InView(buf, offset + 4, length) THEN [kind |-> "RangeError"]
          ELSE [kind |-> "tlv", tag |-> tag, length |-> length,
                value |-> bufferToHex(SubSeq(buf, offset + 5, offset + 4 + length))]

\* lines 131-132 and 113: the reader's offset after a TLV was read
OffsetAfterTlv(offset, length) == offset + 4 + length

(***************************************************************************)
(* parseDeliverSmBody: the fixed fields (lines 143-172)                    *)
(***************************************************************************)
\* line 169
ShortMessagePresent(sm_length, remaining) == sm_length > 0 /\ sm_length <= remaining

\* [threw |-> TRUE] when a readUint8 is asked for a byte past the buffer;
\* otherwise the body so far, message_content and the reader's offset.
ReadFixedFields(buf, start) ==
  LET service_type == readCString(buf, start)
      o1 == service_type.offset
  IN IF ~InView(buf, o1, 2) THEN [threw |-> TRUE]
     ELSE
     LET source_address == readCString(buf, o1 + 2)
         o2 == source_address.offset
     IN IF ~InView(buf, o2, 2) THEN [threw |-> TRUE]
        ELSE
        LET dest_address == readCString(buf, o2 + 2)
            o3 == dest_address.offset
        IN IF ~InView(buf, o3, 7) THEN [threw |-> TRUE]
           ELSE
           LET esmClass == ByteAt(buf, o3)
               data_coding == ByteAt(buf, o3 + 4)
               sm_length == ByteAt(buf, o3 + 6)
               o4 == o3 + 7
               present == ShortMessagePresent(sm_length, bytesRemaining(buf, o4))
               content == IF present
                            THEN Some(SubSeq(buf, o4 + 1, o4 + sm_length))
                            ELSE None
           IN [threw |-> FALSE,
               offset |-> IF present THEN o4 + sm_length ELSE o4,
               message_content |-> content,
               body |->
                 [service_type |-> service_type.str,
                  source_addr_ton |-> ByteAt(buf, o1),
                  source_addr_npi |-> ByteAt(buf, o1 + 1),
                  source_address |-> source_address.str,
                  dest_addr_ton |-> ByteAt(buf, o2),
                  dest_addr_npi |-> ByteAt(buf, o2 + 1),
                  dest_address |-> dest_address.str,
                  esm_class |-> <<ESM_CLASS_MAP(esmClass), ToHex2(esmClass)>>,
                  protocol_id |-> ByteAt(buf, o3 + 1),
                  priority_flag |-> ByteAt(buf, o3 + 2),
                  replace_if_present_flag |-> ByteAt(buf, o3 + 3),
                  data_coding |-> data_coding,
                  sm_default_msg_id |-> ByteAt(buf, o3 + 5),
                  sm_length |-> sm_length,
                  short_message |-> IF present THEN Some(bufferToHex(content[1]))
                                    ELSE None]]

\* lines 181-183: the message content after a TLV was pushed
ContentAfterTlv(content, tlv) ==
  IF tlv.tag = 1060 THEN Some(HexToBytes(tlv.value)) ELSE content

\* lines 189-203: the body parseDeliverSmBody returns
FinishBody(fixed, tlvList, content) ==
  [fixed |-> fixed,
   tlvs |-> IF Len(tlvList) > 0
              THEN Some([i \in 1..Len(tlvList) |->
                           [tag |-> <<"0", "x">> \o ToHex4(tlvList[i].tag),
                            length |-> tlvList[i].length,
                            value |-> tlvList[i].value]])
              ELSE None,
   decoded_message |-> IF content # None
                         THEN decodeMessage(content[1], fixed.data_coding)
                         ELSE NoMessageContent]

(***************************************************************************)
(* parseSmppPdu (lines 207-241)                                            *)
(***************************************************************************)
\* lines 210-215
ReadHeader(buf) ==
  [command_length |-> GetUint32(buf, 0, FALSE),
   command_id |-> GetUint32(buf, 4, FALSE),
   command_status |-> GetUint32(buf, 8, FALSE),
   sequence_no |-> GetUint32(buf, 12, FALSE)]

\* line 221
CommandName(command_id) ==
  IF COMMAND_ID_MAP(command_id) # Null THEN COMMAND_ID_MAP(command_id)
  ELSE "Unknown Command"

\* line 217
LengthMismatch(hdr, buf) ==
  hdr.command_length # <<Len(buf) \div 65536, Len(buf) % 65536>>

\* lines 227-231
UnsupportedBody(buf, hdr) ==
  LET remainingBytes == bytesRemaining(buf, 16)
  IN [unsupported_command |-> <<CommandName(hdr.command_id), hdr.command_id>>,
      raw_body |-> IF remainingBytes > 0
                     THEN bufferToHex(SubSeq(buf, 17, Len(buf)))
                     ELSE <<"N", "o", " ", "b", "o", "d", "y">>]

\* lines 234-240
ParsedPdu(hdr, b) ==
  [header |-> [command_length |-> hdr.command_length,
               command_id |-> hdr.command_id,
               command_status |-> hdr.command_status,
               sequence_no |-> hdr.sequence_no,
               command_name |-> CommandName(hdr.command_id)],
   body |-> b]

(***************************************************************************)
(* parseMultipleSmppPdus (lines 243-283)                                   *)
(***************************************************************************)
\* (a header that ends at the end of the payload left out)
HeaderFitsStrictly(offset, byteLength) == offset + 16 < byteLength

\* line 250
HeaderFits(offset, byteLength) == offset + 16 <= byteLength

\* line 254
IsKnownCommand(commandId) == commandId \in knownCommandIds

\* (a header-only PDU refused)
LengthAboveHeader(commandLength, offset, byteLength) ==
  /\ ~U32Gt(commandLength, byteLength - offset)
  /\ Num(commandLength) > 16

\* (the end of the slice not compared with the end of the payload)
LengthAtLeastHeader(commandLength, offset, byteLength) ==
  /\ commandLength[1] = 0
  /\ commandLength[2] >= 16

\* line 258
LengthReasonable(commandLength, offset, byteLength) ==
  /\ ~U32Gt(commandLength, byteLength - offset)
  /\ Num(commandLength) >= 16

\* lines 251-258: both heuristics pass at `offset`
PduFoundAt(buf, offset) ==
  /\ IsKnownCommand(GetUint32(buf, offset + 4, FALSE))
  /\ LengthReasonable(GetUint32(buf, offset, FALSE), offset, Len(buf))

\* line 260
singlePduBuffer(buf, offset) ==
  Slice(buf, offset, offset + Num(GetUint32(buf, offset, FALSE)))

\* lines 271, 279: offset++
SkipOneByte(offset) == offset + 1

\* (the slice that could not be decoded skipped whole)
RecoverByLength(offset, commandLength) == offset + commandLength

\* line 271: offset++ in the catch, whatever the length of the slice
RecoverOffset(offset, commandLength) == offset + 1

\* line 266: offset += commandLength
SkipPdu(offset, commandLength) == offset + commandLength

IsDeliverSm(buf) == CommandName(ReadHeader(buf).command_id) = "deliver_sm"

\* An event handler can start: no handler or callback is running, and no
\* promise continuation is pending.
NoTaskRunning ==
  /\ capPc \in {"none", "idle", "resolved", "rejected"}
  /\ ~(parsePc = "awaiting" /\ capPc \in {"resolved", "rejected"})
  /\ scanPc \in {"idle", "done"}

\* handleSelectPacket (part_001 lines 55-62) for a packet of the list shown
\* calls parseMultipleSmppPdus on its payload; lines 244-247 start the scan.
HandleSelectPacket ==
  /\ NoTaskRunning
  /\ \E i \in 1..Len(packetsState) :
       /\ selectedPacketIndex' = Some(packetsState[i].index)
       /\ tcpPayload' = packetsState[i].payload
  /\ error' = None
  /\ detailedPacketData' = None
  /\ scanPc' = "scan"
  /\ pduOffset' = 0
  /\ allPdus' = <<>>
  /\ pduSlices' = <<>>
  /\ UNCHANGED <<input, pduBuffer, readerOffset, header, body, message_content,
                 tlvs, mismatchWarned>>
  /\ UNCHANGED capVars
  /\ UNCHANGED <<file, packetsState, packetsFile, isLoading, parsePc,
                 selectionsLeft, parsesLeft>>

\* parseMultipleSmppPdus called on a payload of its own (lines 244-247)
StartScan ==
  /\ capPc = "none"
  /\ input.known
  /\ scanPc = "idle"
  /\ scanPc' = "scan"
  /\ pduOffset' = 0
  /\ allPdus' = <<>>
  /\ pduSlices' = <<>>
  /\ UNCHANGED <<tcpPayload, input, pduBuffer, readerOffset, header, body,
                 message_content, tlvs, mismatchWarned>>
  /\ UNCHANGED capVars
  /\ UNCHANGED uiVars

\* line 250 false: return allPdus; when handleSelectPacket made the call,
\* it stores the result (part_001 line 63)
ScanExit ==
  /\ scanPc = "scan"
  /\ ~HeaderFits(pduOffset, Len(tcpPayload))
  /\ scanPc' = "done"
  /\ detailedPacketData' = IF input.known THEN detailedPacketData
                           ELSE Some(allPdus)
  /\ UNCHANGED <<tcpPayload, input, pduOffset, allPdus, pduBuffer, readerOffset,
                 header, body, message_content, tlvs, pduSlices, mismatchWarned>>
  /\ UNCHANGED capVars
  /\ UNCHANGED <<file, packetsState, packetsFile, selectedPacketIndex, isLoading,
                 error, parsePc, selectionsLeft, parsesLeft>>

\* lines 276-279: no PDU at this offset
ScanSkip ==
  /\ scanPc = "scan"
  /\ HeaderFits(pduOffset, Len(tcpPayload))
  /\ ~PduFoundAt(tcpPayload, pduOffset)
  /\ pduOffset' = SkipOneByte(pduOffset)
  /\ UNCHANGED <<tcpPayload, input, scanPc, allPdus, pduBuffer, readerOffset,
                 header, body, message_content, tlvs, pduSlices, mismatchWarned>>
  /\ UNCHANGED capVars
  /\ UNCHANGED uiVars

\* lines 260-267 with parseSmppPdu taking the branch of line 226
ScanAcceptOther ==
  /\ scanPc = "scan"
  /\ HeaderFits(pduOffset, Len(tcpPayload))
  /\ PduFoundAt(tcpPayload, pduOffset)
  /\ LET buf == singlePduBuffer(tcpPayload, pduOffset)
         hdr == ReadHeader(buf)
     IN /\ ~IsDeliverSm(buf)
        /\ pduBuffer' = buf
        /\ header' = hdr
        /\ readerOffset' = Len(buf)
        /\ mismatchWarned' = (mismatchWarned \/ LengthMismatch(hdr, buf))
        /\ allPdus' = Append(allPdus, ParsedPdu(hdr, UnsupportedBody(buf, hdr)))
        /\ pduSlices' = Append(pduSlices, <<pduOffset, pduOffset + Len(buf)>>)
        /\ pduOffset' = SkipPdu(pduOffset, Num(hdr.command_length))
  /\ body' = <<>>
  /\ message_content' = None
  /\ tlvs' = <<>>
  /\ UNCHANGED <<tcpPayload, input, scanPc>>
  /\ UNCHANGED capVars
  /\ UNCHANGED uiVars

\* line 260, parseSmppPdu up to line 225 and parseDeliverSmBody up to the
\* TLV loop (lines 143-175)
ScanAcceptDeliverSm ==
  /\ scanPc = "scan"
  /\ HeaderFits(pduOffset, Len(tcpPayload))
  /\ PduFoundAt(tcpPayload, pduOffset)
  /\ LET buf == singlePduBuffer(tcpPayload, pduOffset)
         hdr == ReadHeader(buf)
         fixed == ReadFixedFields(buf, 16)
     IN /\ IsDeliverSm(buf)
        /\ ~fixed.threw
        /\ pduBuffer' = buf
        /\ header' = hdr
        /\ mismatchWarned' = (mismatchWarned \/ LengthMismatch(hdr, buf))
        /\ readerOffset' = fixed.offset
        /\ body' = fixed.body
        /\ message_content' = fixed.message_content
        /\ tlvs' = <<>>
        /\ scanPc' = "tlv"
  /\ UNCHANGED <<tcpPayload, input, pduOffset, allPdus, pduSlices>>
  /\ UNCHANGED capVars
  /\ UNCHANGED uiVars

\* a fixed field is read past the slice: the RangeError is caught at line 268
\* and the scan moves on by one byte (line 271)
ScanRecover ==
  /\ scanPc = "scan"
  /\ HeaderFits(pduOffset, Len(tcpPayload))
  /\ PduFoundAt(tcpPayload, pduOffset)
  /\ LET buf == singlePduBuffer(tcpPayload, pduOffset)
         hdr == ReadHeader(buf)
     IN /\ IsDeliverSm(buf)
        /\ ReadFixedFields(buf, 16).threw
        /\ pduBuffer' = buf
        /\ header' = hdr
        /\ mismatchWarned' = (mismatchWarned \/ LengthMismatch(hdr, buf))
        /\ readerOffset' = Len(buf)   \* readUint8 throws at the end of the slice
        /\ pduOffset' = RecoverOffset(pduOffset, Num(hdr.command_length))
  /\ body' = <<>>
  /\ message_content' = None
  /\ tlvs' = <<>>
  /\ UNCHANGED <<tcpPayload, input, scanPc, allPdus, pduSlices>>
  /\ UNCHANGED capVars
  /\ UNCHANGED uiVars

\* one pass of the TLV loop that reads a TLV (lines 176-183)
TlvRead ==
  /\ scanPc = "tlv"
  /\ bytesRemaining(pduBuffer, readerOffset) > 0
  /\ LET tlv == readTlv(pduBuffer, readerOffset)
     IN /\ tlv.kind = "tlv"
        /\ tlvs' = Append(tlvs, [tag |-> tlv.tag, length |-> tlv.length,
                                 value |-> tlv.value])
        /\ message_content' = ContentAfterTlv(message_content, tlv)
        /\ readerOffset' = OffsetAfterTlv(readerOffset, tlv.length)
  /\ UNCHANGED <<tcpPayload, input, scanPc, pduOffset, allPdus, pduBuffer,
                 header, body, pduSlices, mismatchWarned>>
  /\ UNCHANGED capVars
  /\ UNCHANGED uiVars

\* the TLV loop ends (line 176 false, or the break of line 185); lines
\* 189-203 and 234-240 build the result, lines 263-267 keep it.  A
\* RangeError from readBytes would be caught at line 268.
TlvDone ==
  /\ scanPc = "tlv"
  /\ LET more == bytesRemaining(pduBuffer, readerOffset) > 0
         tlv == IF more THEN readTlv(pduBuffer, readerOffset)
                ELSE [kind |-> "null"]
     IN IF tlv.kind = "RangeError"
          THEN /\ pduOffset' = RecoverOffset(pduOffset,
                                              Num(header.command_length))
               /\ UNCHANGED <<allPdus, pduSlices>>
          ELSE /\ tlv.kind = "null"
               /\ allPdus' = Append(allPdus,
                    ParsedPdu(header, FinishBody(body, tlvs, message_content)))
               /\ pduSlices' = Append(pduSlices,
                                      <<pduOffset, pduOffset + Len(pduBuffer)>>)
               /\ pduOffset' = SkipPdu(pduOffset, Num(header.command_length))
  /\ scanPc' = "scan"
  /\ UNCHANGED <<tcpPayload, input, pduBuffer, readerOffset, header, body,
                 message_content, tlvs, mismatchWarned>>
  /\ UNCHANGED capVars
  /\ UNCHANGED uiVars

(***************************************************************************)
(* Inputs.  A payload is built from a list of PDU descriptors, a capture   *)
(* file from a list of records; the descriptors of a payload are kept in   *)
(* `input` so that what the scanner returns can be compared with what the  *)
(* payload was made of.                                                    *)
(***************************************************************************)
MaxPdus == 2        \* PDUs concatenated in one payload
MaxTlvs == 2        \* TLVs after the short message of one deliver_sm
GarbageLen == 3     \* garbage bytes in front of a PDU
MaxRecords == 2     \* records in one capture file

Zeros(n) == [i \in 1..n |-> 0]

RECURSIVE Flatten(_)
Flatten(seqs) == IF seqs = <<>> THEN <<>> ELSE seqs[1] \o Flatten(Tail(seqs))

\* the 4 bytes of a 32-bit value in the given byte order
U32Bytes(u, le) ==
  IF le THEN <<u[2] % 256, u[2] \div 256, u[1] % 256, u[1] \div 256>>
  ELSE <<u[1] \div 256, u[1] % 256, u[2] \div 256, u[2] % 256>>

U16Bytes(n) == <<n \div 256, n % 256>>

MessagePayloadTag == 1060      \* 0x0424

TlvBytes(t) == U16Bytes(t.tag) \o U16Bytes(Len(t.value)) \o t.value

\* a TLV header declaring 9999 value bytes, followed by 6 bytes
MalformedTail == U16Bytes(MessagePayloadTag) \o U16Bytes(9999) \o <<1, 2, 3, 4, 5, 6>>

\* a TLV header declaring 4 value bytes, followed by 2 bytes
ShortTail == U16Bytes(30) \o U16Bytes(4) \o <<9, 9>>

\* the body of a PDU descriptor
BodyBytes(d) ==
  CASE d.kind = "other" -> d.raw
    [] d.kind = "truncated" -> <<0, 1>>
    [] d.kind = "deliver" ->
         <<0>> \o <<1, 1>> \o <<49, 50, 0>> \o <<1, 1>> \o <<51, 0>>
         \o <<4, 0, 0, 0, d.data_coding, 0, Len(d.sm)>> \o d.sm
         \o Flatten([i \in 1..Len(d.tlvs) |-> TlvBytes(d.tlvs[i])])
         \o d.tail

\* the bytes of a PDU whose command_length is its own size
EncodePdu(d) ==
  LET b == BodyBytes(d)
  IN U32Bytes(<<0, 16 + Len(b)>>, FALSE) \o U32Bytes(d.command_id, FALSE)
     \o U32Bytes(d.command_status, FALSE) \o U32Bytes(d.sequence_no, FALSE) \o b

EncodePayload(in) ==
  in.garbage \o Flatten([i \in 1..Len(in.pdus) |-> EncodePdu(in.pdus[i])])

Descriptor(id, seqNo, kind, raw, sm, dc, tlvList, tail) ==
  [command_id |-> id, command_status |-> <<0, 0>>, sequence_no |-> <<0, seqNo>>,
   kind |-> kind, raw |-> raw, sm |-> sm, data_coding |-> dc, tlvs |-> tlvList,
   tail |-> tail]

EnquireLink == Descriptor(<<0, 4>>, 1, "other", <<>>, <<>>, 0, <<>>, <<>>)

PlainPdus ==
  {EnquireLink,
   Descriptor(<<32768, 4>>, 2, "other", <<>>, <<>>, 0, <<>>, <<>>),
   Descriptor(<<0, 3>>, 3, "other", <<7, 0>>, <<>>, 0, <<>>, <<>>),
   Descriptor(<<0, 2>>, 4, "deliver", <<>>, <<72, 105>>, 4, <<>>, <<>>)}

\* a deliver_sm whose body ends inside the fixed fields
TruncatedDeliverSm == Descriptor(<<0, 2>>, 5, "truncated", <<>>, <<>>, 0, <<>>, <<>>)

TlvChoices ==
  {[tag |-> MessagePayloadTag, value |-> <<>>],
   [tag |-> MessagePayloadTag, value |-> <<79, 75>>],
   [tag |-> 30, value |-> <<65>>]}

SeqsUpTo(S, n) == UNION {[1..k -> S] : k \in 0..n}

RichDeliverSms ==
  {Descriptor(<<0, 2>>, 6, "deliver", <<>>, sm, dc, tl, tail) :
     sm \in {<<>>, <<72, 105>>}, dc \in {0, 4},
     tl \in SeqsUpTo(TlvChoices, MaxTlvs),
     tail \in {<<>>, MalformedTail, ShortTail, <<0, 0>>}}

GarbageBytes == {0, 1, 2, 4, 16, 128, 255}

\* what a TCP segment can start with: the first 20 bytes of a deliver_sm
\* whose end is in a later segment, or a header with a known command_id
\* that declares 8 or 40000 bytes
Fragments ==
  {SubSeq(EncodePdu(Descriptor(<<0, 2>>, 7, "deliver", <<>>, <<72, 105>>, 4,
                               <<>>, <<>>)), 1, 20),
   U32Bytes(<<0, 8>>, FALSE) \o U32Bytes(<<0, 4>>, FALSE) \o Zeros(8),
   U32Bytes(<<0, 40000>>, FALSE) \o U32Bytes(<<32768, 4>>, FALSE) \o Zeros(8)}

PayloadInputs ==
  {[garbage |-> <<>>, pdus |-> ps, known |-> TRUE] :
     ps \in SeqsUpTo(PlainPdus \cup {TruncatedDeliverSm}, MaxPdus)}
  \cup {[garbage |-> g, pdus |-> <<d>>, known |-> TRUE] :
          g \in [1..GarbageLen -> GarbageBytes], d \in PlainPdus}
  \cup {[garbage |-> <<>>, pdus |-> <<d>>, known |-> TRUE] : d \in RichDeliverSms}
  \cup {[garbage |-> f, pdus |-> ps, known |-> TRUE] :
          f \in Fragments, ps \in SeqsUpTo(PlainPdus, MaxPdus)}

NoInput == [garbage |-> <<>>, pdus |-> <<>>, known |-> FALSE]

(***************************************************************************)
(* Capture files                                                           *)
(***************************************************************************)
\* an Ethernet II frame: 12 address bytes, the EtherType, the rest
EthernetFrame(etherType, rest) == Zeros(12) \o U16Bytes(etherType) \o rest

\* a 20-byte IPv4 header 10.0.0.1 -> 10.0.0.2 with header-length nibble ihl
Ipv4Header(ihl, protocol) ==
  <<64 + ihl>> \o Zeros(8) \o <<protocol>> \o Zeros(2)
  \o <<10, 0, 0, 1>> \o <<10, 0, 0, 2>>

\* a 20-byte TCP header 2775 -> 9999 with data-offset nibble doff
TcpHeader(doff) ==
  U16Bytes(2775) \o U16Bytes(9999) \o Zeros(8) \o <<doff * 16>> \o Zeros(7)

TcpFrame(payload) ==
  EthernetFrame(2048, Ipv4Header(5, 6) \o TcpHeader(5) \o payload)

Take(s, n) == SubSeq(s, 1, n)

AnyLength == <<65535, 65535>>     \* 0xFFFFFFFF

Actual(frame) == <<frame, <<0, Len(frame)>>>>

\* <<frame bytes, captured-length field>> of one record
RecordChoices ==
  { Actual(TcpFrame(EncodePdu(EnquireLink) \o <<0>>)),
    Actual(TcpFrame(EncodePdu(EnquireLink))),
    Actual(TcpFrame(EncodePdu(
      Descriptor(<<0, 2>>, 6, "deliver", <<>>, <<72, 105>>, 0,
                 <<[tag |-> MessagePayloadTag, value |-> <<79, 75>>]>>, <<>>)))),
    Actual(EthernetFrame(2054, Zeros(28))),
    Actual(EthernetFrame(2048, Ipv4Header(5, 17) \o Zeros(25))),
    Actual(Take(TcpFrame(<<>>), 15)),
    Actual(Take(TcpFrame(<<>>), 40)),
    Actual(EthernetFrame(2048, Ipv4Header(0, 6) \o Zeros(2))),
    <<TcpFrame(EncodePdu(EnquireLink) \o <<0>>), AnyLength>>,
    <<TcpFrame(EncodePdu(EnquireLink) \o <<0>>), <<0, 14>>>>,
    <<TcpFrame(EncodePdu(EnquireLink) \o <<0>>), <<0, 15>>>>,
    <<TcpFrame(EncodePdu(EnquireLink) \o <<0>>), <<0, 40>>>> }

GlobalHeader(magic) == U32Bytes(magic, FALSE) \o Zeros(20)

RecordBytes(r, le) == Zeros(8) \o U32Bytes(r[2], le) \o Zeros(4) \o r[1]

CaptureFile(magic, records, trailer) ==
  GlobalHeader(magic)
  \o Flatten([i \in 1..Len(records) |->
                RecordBytes(records[i], magic = MagicLittleEndian)])
  \o trailer

CaptureFiles ==
  {CaptureFile(m, rs, t) :
     m \in {MagicBigEndian, MagicLittleEndian},
     rs \in SeqsUpTo(RecordChoices, MaxRecords),
     t \in {<<>>, Zeros(5)}}
  \cup {CaptureFile(<<41394, 50133>>, rs, <<>>) : rs \in SeqsUpTo(RecordChoices, 1)}
  \cup {Take(GlobalHeader(MagicBigEndian), n) : n \in {0, 3, 23}}

(***************************************************************************)
(* The specification                                                       *)
(***************************************************************************)
NoHeader ==
  [command_length |-> <<0, 0>>, command_id |-> <<0, 0>>,
   command_status |-> <<0, 0>>, sequence_no |-> <<0, 0>>]

ScanIdle ==
  /\ scanPc = "idle"
  /\ pduOffset = 0
  /\ allPdus = <<>>
  /\ pduBuffer = <<>>
  /\ readerOffset = 0
  /\ header = NoHeader
  /\ body = <<>>
  /\ message_content = None
  /\ tlvs = <<>>
  /\ pduSlices = <<>>
  /\ mismatchWarned = FALSE

(***************************************************************************)
(* App (part_001): the state hooks and the event handlers.  A file is      *)
(* modelled by its bytes; FileReader is taken to read it without an error. *)
(***************************************************************************)
MaxSelections == 2  \* files the user selects in one session
MaxParses == 2      \* clicks on the parse button in one session

\* the files the user selects from: one with an enquire_link packet, one
\* with a deliver_sm packet, one without records
SelectableFiles ==
  {CaptureFile(MagicBigEndian,
               <<Actual(TcpFrame(EncodePdu(EnquireLink) \o <<0>>))>>, <<>>),
   CaptureFile(MagicLittleEndian,
               <<Actual(TcpFrame(EncodePdu(
                   Descriptor(<<0, 2>>, 6, "deliver", <<>>, <<72, 105>>, 0,
                              <<>>, <<>>))))>>, <<>>),
   CaptureFile(MagicBigEndian, <<>>, <<>>)}

\* lines 18-20, 33-35, 81-83: setPackets([]), setSelectedPacketIndex(null),
\* setDetailedPacketData(null); the locals of the scan that produced the
\* data on display are gone by then
ClearResults ==
  /\ packetsState' = <<>>
  /\ packetsFile' = None
  /\ selectedPacketIndex' = None
  /\ detailedPacketData' = None
  /\ tcpPayload' = <<>>
  /\ scanPc' = "idle"
  /\ pduOffset' = 0
  /\ allPdus' = <<>>
  /\ pduBuffer' = <<>>
  /\ readerOffset' = 0
  /\ header' = NoHeader
  /\ body' = <<>>
  /\ message_content' = None
  /\ tlvs' = <<>>
  /\ pduSlices' = <<>>
  /\ UNCHANGED <<input, mismatchWarned>>

\* lines 17-21 and 80-84
SetSelectedFile(f) ==
  /\ file' = Some(f)
  /\ ClearResults
  /\ error' = None
  /\ selectionsLeft' = selectionsLeft - 1
  /\ UNCHANGED <<isLoading, parsePc, parsesLeft>>
  /\ UNCHANGED capVars

\* handleFileChange (lines 14-23) with a file in event.target.files; the
\* input element is enabled whether or not a parse is awaited (line 114)
HandleFileChange ==
  /\ NoTaskRunning
  /\ selectionsLeft > 0
  /\ \E f \in SelectableFiles : SetSelectedFile(f)

\* handleDrop (lines 76-86) with a file in event.dataTransfer.files
HandleDrop ==
  /\ NoTaskRunning
  /\ selectionsLeft > 0
  /\ \E f \in SelectableFiles : SetSelectedFile(f)

\* handleParse up to the await (lines 25-39); the button is disabled
\* without a file and while isLoading (line 118).  parsePcapFile starts to
\* read the file of the closure (part_000 lines 288-304).
HandleParse ==
  /\ NoTaskRunning
  /\ parsesLeft > 0
  /\ file # None
  /\ ~isLoading
  /\ isLoading' = TRUE
  /\ error' = None
  /\ ClearResults
  /\ parsePc' = "awaiting"
  /\ pcapBuffer' = file[1]
  /\ capPc' = "idle"
  /\ capError' = ""
  /\ littleEndian' = FALSE
  /\ pcapOffset' = 0
  /\ packetIndex' = 0
  /\ packets' = <<>>
  /\ maxRead' = -1
  /\ recordLog' = <<>>
  /\ parsesLeft' = parsesLeft - 1
  /\ UNCHANGED <<file, selectionsLeft>>

\* handleParse after the await, the promise resolved (lines 39-43, 50-51)
ParseResolved ==
  /\ parsePc = "awaiting"
  /\ capPc = "resolved"
  /\ error' = IF Len(packets) = 0
                THEN Some("No valid TCP packets with payloads found in the PCAP file.")
                ELSE error
  /\ packetsState' = packets
  /\ packetsFile' = Some(pcapBuffer)
  /\ isLoading' = FALSE
  /\ parsePc' = "idle"
  /\ UNCHANGED <<file, selectedPacketIndex, detailedPacketData, selectionsLeft,
                 parsesLeft>>
  /\ UNCHANGED capVars
  /\ UNCHANGED scanVars

\* handleParse after the await, the promise rejected (lines 44-51)
ParseRejected ==
  /\ parsePc = "awaiting"
  /\ capPc = "rejected"
  /\ error' = Some(capError)
  /\ isLoading' = FALSE
  /\ parsePc' = "idle"
  /\ UNCHANGED <<file, packetsState, packetsFile, selectedPacketIndex,
                 detailedPacketData, selectionsLeft, parsesLeft>>
  /\ UNCHANGED capVars
  /\ UNCHANGED scanVars

\* a capture file was selected, handleParse has run to its await and the
\* user does nothing else until the list is shown
InitCapture ==
  /\ pcapBuffer \in CaptureFiles
  /\ capPc = "idle"
  /\ tcpPayload = <<>>
  /\ input = NoInput
  /\ file = Some(pcapBuffer)
  /\ isLoading = TRUE
  /\ parsePc = "awaiting"
  /\ selectionsLeft = 0
  /\ parsesLeft = 0

\* parseMultipleSmppPdus is about to be called on a payload
InitPayload ==
  /\ pcapBuffer = <<>>
  /\ capPc = "none"
  /\ input \in PayloadInputs
  /\ tcpPayload = EncodePayload(input)
  /\ file = None
  /\ isLoading = FALSE
  /\ parsePc = "idle"
  /\ selectionsLeft = 0
  /\ parsesLeft = 0

\* the App was mounted (lines 7-12)
InitApp ==
  /\ pcapBuffer = <<>>
  /\ capPc = "none"
  /\ tcpPayload = <<>>
  /\ input = NoInput
  /\ file = None
  /\ isLoading = FALSE
  /\ parsePc = "idle"
  /\ selectionsLeft = MaxSelections
  /\ parsesLeft = MaxParses

Init ==
  /\ InitCapture \/ InitPayload \/ InitApp
  /\ packetsState = <<>>
  /\ packetsFile = None
  /\ selectedPacketIndex = None
  /\ detailedPacketData = None
  /\ error = None
  /\ capError = ""
  /\ littleEndian = FALSE
  /\ pcapOffset = 0
  /\ packetIndex = 0
  /\ packets = <<>>
  /\ maxRead = -1
  /\ recordLog = <<>>
  /\ ScanIdle

Next ==
  \/ ReadGlobalHeader
  \/ RecordLoopExit
  \/ RecordSkip
  \/ RecordEmit
  \/ RecordThrow
  \/ HandleSelectPacket
  \/ StartScan
  \/ ScanExit
  \/ ScanSkip
  \/ ScanAcceptOther
  \/ ScanAcceptDeliverSm
  \/ ScanRecover
  \/ TlvRead
  \/ TlvDone
  \/ HandleFileChange
  \/ HandleDrop
  \/ HandleParse
  \/ ParseResolved
  \/ ParseRejected

Spec == Init /\ [][Next]_vars

(***************************************************************************)
(* C1.  Every loop advances its cursor: a pass of the record loop that     *)
(* stays in the loop increases `offset`; a pass of the PDU scan that comes *)
(* back to the loop test increases `offset` (which does not move while the *)
(* slice is decoded); a pass of the TLV loop that stays in the loop        *)
(* increases the reader's offset.  No cursor ever passes the end of its    *)
(* buffer, so each loop ends.                                              *)
(***************************************************************************)
C1_Step ==
  /\ (capPc = "loop" /\ capPc' = "loop") => pcapOffset' > pcapOffset
  /\ (scanPc \in {"scan", "tlv"} /\ scanPc' = "scan") => pduOffset' > pduOffset
  /\ (scanPc \in {"scan", "tlv"} /\ scanPc' = "tlv") => pduOffset' = pduOffset
  /\ (scanPc = "tlv" /\ scanPc' = "tlv") => readerOffset' > readerOffset

C1_Bounded ==
  /\ capPc = "loop" => pcapOffset <= Len(pcapBuffer)
  /\ pduOffset <= Len(tcpPayload)
  /\ readerOffset <= Len(pduBuffer)

C1_CursorsAdvance == [][C1_Step]_vars /\ []C1_Bounded

\* a capture was read through two records and a deliver_sm with a TLV was
\* scanned out of one of its payloads
C1_Witness ==
  /\ capPc = "resolved"
  /\ Len(recordLog) >= 2
  /\ scanPc = "done"
  /\ pduOffset > 0
  /\ Len(tlvs) >= 1

(***************************************************************************)
(* C2.  With a global header that is long enough and has an accepted magic *)
(* number, every byte offset a getter is asked for while the records are   *)
(* iterated is less than the buffer length.                                *)
(***************************************************************************)
C2_NoReadPastBuffer ==
  (Len(pcapBuffer) >= 24 /\ capPc \in {"loop", "resolved", "rejected"})
    => maxRead < Len(pcapBuffer)

(***************************************************************************)
(* C3.  In the list extractAllTcpPayloads returns, the index values are    *)
(* 1, 2, ..., n in record order, and a record gets an index if and only if *)
(* its EtherType is 0x0800, its IP protocol is 6 and its TCP payload       *)
(* length is greater than 16; all other records get none.                  *)
(***************************************************************************)
\* the fields of the record whose header starts at `start`, as the capture
\* format lays them out
C3_EtherType(start) == GetUint16(pcapBuffer, start + 16 + 12)
C3_IpProtocol(start) == ByteAt(pcapBuffer, start + 16 + 14 + 9)
C3_PayloadLength(start, incl_len) ==
  LET ip == ByteAt(pcapBuffer, start + 16 + 14) % 16
      tcp == ByteAt(pcapBuffer, start + 16 + 14 + ip * 4 + 12) \div 16
  IN incl_len - (14 + ip * 4 + tcp * 4)

\* (a record of at most 30 bytes has a payload of at most 16)
C3_Qualifies(e) ==
  /\ Num(e.incl_len) > 30
  /\ C3_EtherType(e.start) = 2048
  /\ C3_IpProtocol(e.start) = 6
  /\ C3_PayloadLength(e.start, Num(e.incl_len)) > 16

C3_Indexed(j) == Cardinality({k \in 1..j : recordLog[k].index # 0})

C3_IndexesContiguous ==
  capPc = "resolved" =>
    /\ \A i \in 1..Len(packets) : packets[i].index = i
    /\ \A j \in 1..Len(recordLog) :
         /\ (recordLog[j].index # 0) <=> C3_Qualifies(recordLog[j])
         /\ recordLog[j].index # 0 => recordLog[j].index = C3_Indexed(j)
    /\ Len(packets) = C3_Indexed(Len(recordLog))

\* a record without an index followed by the record with index 1
C3_Witness ==
  /\ capPc = "resolved"
  /\ Len(recordLog) = 2
  /\ recordLog[1].index = 0
  /\ recordLog[2].index = 1
  /\ Len(packets) = 1

(***************************************************************************)
(* C4.  A payload that is k >= 1 valid PDUs back to back makes             *)
(* parseMultipleSmppPdus return k entries, in payload order, the i-th with *)
(* the header fields of the i-th PDU.                                      *)
(***************************************************************************)
C4_ValidPdus(in) ==
  /\ in.known
  /\ Len(in.pdus) >= 1
  /\ \A i \in 1..Len(in.pdus) : in.pdus[i].kind # "truncated"

C4_HeaderOf(d) ==
  [command_length |-> <<0, Len(EncodePdu(d))>>,
   command_id |-> d.command_id,
   command_status |-> d.command_status,
   sequence_no |-> d.sequence_no]

C4_SameHeader(h, d) ==
  /\ h.command_length = C4_HeaderOf(d).command_length
  /\ h.command_id = d.command_id
  /\ h.command_status = d.command_status
  /\ h.sequence_no = d.sequence_no

C4_BackToBack ==
  (scanPc = "done" /\ input.garbage = <<>> /\ C4_ValidPdus(input)) =>
    /\ Len(allPdus) = Len(input.pdus)
    /\ \A i \in 1..Len(input.pdus) : C4_SameHeader(allPdus[i].header, input.pdus[i])

\* two PDUs, the first with a body, were scanned
C4_Witness ==
  /\ scanPc = "done"
  /\ input.garbage = <<>>
  /\ C4_ValidPdus(input)
  /\ Len(input.pdus) = 2
  /\ input.pdus[1].kind = "deliver"
  /\ Len(allPdus) = 2

(***************************************************************************)
(* C5.  With 3 garbage bytes of any value in front of one valid PDU that   *)
(* ends at the end of the payload, no slice starting at offset 0, 1 or 2   *)
(* is accepted, and the scan returns one entry: the PDU at offset 3.       *)
(***************************************************************************)
C5_GarbageThenPdu ==
  /\ input.known
  /\ Len(input.garbage) = GarbageLen
  /\ Len(input.pdus) = 1
  /\ input.pdus[1].kind # "truncated"

C5_GarbageSkipped ==
  C5_GarbageThenPdu =>
    /\ \A i \in 1..Len(pduSlices) : pduSlices[i] = <<GarbageLen, Len(tcpPayload)>>
    /\ scanPc = "tlv" => pduOffset = GarbageLen
    /\ scanPc = "done" =>
         /\ Len(allPdus) = 1
         /\ Len(pduSlices) = 1
         /\ C4_SameHeader(allPdus[1].header, input.pdus[1])

\* garbage that is not all zero in front of a PDU, scanned to the end
C5_Witness ==
  /\ C5_GarbageThenPdu
  /\ input.garbage[1] # 0
  /\ input.garbage[3] # 0
  /\ scanPc = "done"
  /\ Len(allPdus) = 1

(***************************************************************************)
(* C6.  A capture with one Ethernet/IPv4/TCP frame whose payload is one    *)
(* 16-byte enquire_link PDU yields one packet, and scanning its payload    *)
(* yields one ParsedPdu named enquire_link with an empty raw body.         *)
(***************************************************************************)
C6_Capture ==
  CaptureFile(MagicBigEndian, <<Actual(TcpFrame(EncodePdu(EnquireLink)))>>, <<>>)

C6_EnquireLinkRoundTrip ==
  (pcapBuffer = C6_Capture /\ capPc = "resolved") =>
    /\ Len(packets) = 1
    /\ packets[1].payload = EncodePdu(EnquireLink)
    /\ scanPc = "done" =>
         /\ Len(allPdus) = 1
         /\ allPdus[1].header.command_name = "enquire_link"
         /\ bytesRemaining(pduBuffer, 16) = 0

(***************************************************************************)
(* C7.  When a decoded deliver_sm body has a TLV with tag 0x0424, the      *)
(* bytes rendered into decoded_message are the value bytes of that TLV     *)
(* (of the last one, when there are several), as many as it declares.      *)
(***************************************************************************)
C7_PayloadTlvs(d) == {i \in 1..Len(d.tlvs) : d.tlvs[i].tag = MessagePayloadTag}

C7_LastPayloadTlv(d) ==
  d.tlvs[CHOOSE i \in C7_PayloadTlvs(d) : \A j \in C7_PayloadTlvs(d) : j <= i]

C7_MessagePayloadRendered ==
  (/\ scanPc = "done"
   /\ input.known
   /\ input.garbage = <<>>
   /\ Len(input.pdus) = 1
   /\ input.pdus[1].kind = "deliver"
   /\ C7_PayloadTlvs(input.pdus[1]) # {}) =>
    /\ Len(allPdus) = 1
    /\ allPdus[1].body.decoded_message.content # "(No message content)"
    /\ allPdus[1].body.decoded_message.bytes = C7_LastPayloadTlv(input.pdus[1]).value

(***************************************************************************)
(* C8.  When a TLV declares more value bytes than remain after its 4-byte  *)
(* header, TLV scanning stops there: that TLV is not recorded, the TLVs    *)
(* read before it are kept as they were read, every recorded TLV fits in   *)
(* the buffer, and the PDU is decoded without an error.                    *)
(***************************************************************************)
C8_ExpectedTlvs(d) ==
  IF d.tlvs = <<>> THEN None
  ELSE Some([i \in 1..Len(d.tlvs) |->
               [tag |-> <<"0", "x">> \o ToHex4(d.tlvs[i].tag),
                length |-> Len(d.tlvs[i].value),
                value |-> bufferToHex(d.tlvs[i].value)]])

C8_TlvsFit ==
  \A i \in 1..Len(tlvs) :
    /\ tlvs[i].length + 4 <= Len(pduBuffer)
    /\ Len(HexToBytes(tlvs[i].value)) >= tlvs[i].length

C8_MalformedTlvStops ==
  /\ C8_TlvsFit
  /\ (/\ scanPc = "done"
      /\ input.known
      /\ input.garbage = <<>>
      /\ Len(input.pdus) = 1
      /\ input.pdus[1].kind = "deliver"
      /\ input.pdus[1].tail \in {MalformedTail, ShortTail}) =>
       /\ Len(allPdus) = 1
       /\ allPdus[1].body.tlvs = C8_ExpectedTlvs(input.pdus[1])
       /\ Len(tlvs) = Len(input.pdus[1].tlvs)
       /\ readerOffset = Len(pduBuffer) - Len(input.pdus[1].tail)

\* two TLVs were read before the one that declares 9999 bytes
C8_Witness ==
  /\ scanPc = "done"
  /\ input.known
  /\ Len(input.pdus) = 1
  /\ input.pdus[1].kind = "deliver"
  /\ input.pdus[1].tail = MalformedTail
  /\ Len(input.pdus[1].tlvs) = 2
  /\ Len(allPdus) = 1
  /\ allPdus[1].body.tlvs # None

(***************************************************************************)
(* C9.  A capture buffer shorter than 24 bytes, or whose first 4 bytes are *)
(* neither a1 b2 c3 d4 nor d4 c3 b2 a1, makes parsePcapFile reject with an *)
(* error before any record is examined: no packet summary is returned.     *)
(***************************************************************************)
C9_BadGlobalHeader ==
  \/ Len(pcapBuffer) < 24
  \/ Take(pcapBuffer, 4) \notin {<<161, 178, 195, 212>>, <<212, 195, 178, 161>>}

C9_FormatErrorRejects ==
  (capPc \notin {"none", "idle"} /\ C9_BadGlobalHeader) =>
    /\ capPc = "rejected"
    /\ capError \in {"Invalid PCAP file: too short for global header.",
                     "Unsupported or invalid PCAP file: magic number is incorrect"}
    /\ packets = <<>>
    /\ recordLog = <<>>
    /\ scanPc = "idle"

\* a file with a record after a global header with another magic number
C9_Witness ==
  /\ capPc = "rejected"
  /\ Len(pcapBuffer) > 40
  /\ capError = "Unsupported or invalid PCAP file: magic number is incorrect"

(***************************************************************************)
(* C10.  A record whose captured length does not cover the Ethernet header *)
(* (14 bytes), a full IPv4 header (20 bytes at least) and a full TCP       *)
(* header (20 bytes at least) is skipped: no packet summary, no error, and *)
(* the reader goes on to the next record.                                  *)
(***************************************************************************)
C10_UndersizedSkipped ==
  \A j \in 1..Len(recordLog) :
    Num(recordLog[j].incl_len) < 14 + 20 + 20 =>
      /\ recordLog[j].outcome = "skip"
      /\ recordLog[j].index = 0

(***************************************************************************)
(* C11.  parseMultipleSmppPdus never raises: the two peeks of the scan are *)
(* inside the payload, and an error raised while an accepted slice at      *)
(* cursor c is decoded is caught: no ParsedPdu is pushed for that slice,   *)
(* the cursor becomes c + 1 (not c + length), the entries pushed earlier   *)
(* stay as they were, and the scan goes on until fewer than 16 bytes       *)
(* remain, so that valid PDUs around the failed slice are all returned.    *)
(***************************************************************************)
\* decoding the slice at the cursor raises in the step that is about to run
C11_DecodingRaises ==
  \/ /\ scanPc = "scan"
     /\ HeaderFits(pduOffset, Len(tcpPayload))
     /\ PduFoundAt(tcpPayload, pduOffset)
     /\ IsDeliverSm(singlePduBuffer(tcpPayload, pduOffset))
     /\ ReadFixedFields(singlePduBuffer(tcpPayload, pduOffset), 16).threw
  \/ /\ scanPc = "tlv"
     /\ bytesRemaining(pduBuffer, readerOffset) > 0
     /\ readTlv(pduBuffer, readerOffset).kind = "RangeError"

C11_Step ==
  C11_DecodingRaises =>
    /\ pduOffset' = pduOffset + 1
    /\ allPdus' = allPdus
    /\ scanPc' = "scan"

C11_Decodable(d) == d.kind # "truncated"

C11_Scanning ==
  /\ (scanPc = "scan" /\ HeaderFits(pduOffset, Len(tcpPayload)))
       => InView(tcpPayload, pduOffset, 8)
  /\ scanPc = "done" => ~HeaderFits(pduOffset, Len(tcpPayload))
  /\ (scanPc = "done" /\ input.known /\ input.garbage = <<>>) =>
       LET good == SelectSeq(input.pdus, C11_Decodable)
       IN /\ Len(allPdus) = Len(good)
          /\ \A i \in 1..Len(good) : C4_SameHeader(allPdus[i].header, good[i])

C11_ScannerRecovers == [][C11_Step]_vars /\ []C11_Scanning

\* a deliver_sm cut inside its fixed fields stood in front of a valid PDU,
\* which the scan returned
C11_Witness ==
  /\ scanPc = "done"
  /\ input.known
  /\ Len(input.pdus) = 2
  /\ input.pdus[1].kind = "truncated"
  /\ input.pdus[2].kind = "deliver"
  /\ Len(allPdus) = 1
  /\ pduSlices[1][1] = Len(EncodePdu(input.pdus[1]))

(***************************************************************************)
(* C12.  Every ParsedPdu parseMultipleSmppPdus returns was decoded from a  *)
(* slice whose size is the header's command_length, which is at least 16,  *)
(* and has a command_name of the command table: the length-mismatch        *)
(* warning is never logged and no entry is named "Unknown Command".  The   *)
(* slices of the returned entries lie inside the payload, in increasing    *)
(* offset order, and do not overlap.                                       *)
(***************************************************************************)
C12_KnownNames ==
  {"bind_receiver", "bind_receiver_resp", "deliver_sm", "deliver_sm_resp",
   "unbind", "unbind_resp", "enquire_link", "enquire_link_resp"}

C12_SlicesWellFormed ==
  /\ ~mismatchWarned
  /\ Len(pduSlices) = Len(allPdus)
  /\ \A i \in 1..Len(allPdus) :
       LET h == allPdus[i].header
           from == pduSlices[i][1]
           to == pduSlices[i][2]
       IN /\ ~U32Gt(h.command_length, to - from)
          /\ Num(h.command_length) = to - from
          /\ Num(h.command_length) >= 16
          /\ h.command_name \in C12_KnownNames
          /\ h.command_name = COMMAND_ID_MAP(h.command_id)
          /\ 0 <= from
          /\ to <= Len(tcpPayload)
          /\ i > 1 => pduSlices[i - 1][2] <= from

\* the payload starts with the front of a PDU that declares more bytes than
\* the payload has, and two PDUs were found after it
C12_Witness ==
  /\ scanPc = "done"
  /\ input.known
  /\ Len(input.garbage) >= 16
  /\ U32Gt(GetUint32(tcpPayload, 0, FALSE), Len(tcpPayload))
  /\ Len(allPdus) = 2
  /\ pduSlices[1][1] > 0
  /\ pduSlices[2][1] = pduSlices[1][2]

(***************************************************************************)
(* C13.  The payload of every packet summary extractAllTcpPayloads returns *)
(* is a byte range of its own capture record: it starts at or after byte   *)
(* 14 of the record's data, it ends at the record's last captured byte,    *)
(* which is before the next record header and inside the buffer, and the   *)
(* summary's length field is the payload's byte count, which is more than  *)
(* 16.                                                                     *)
(***************************************************************************)
C13_PayloadInsideRecord ==
  \A j \in 1..Len(recordLog) :
    recordLog[j].index # 0 =>
      LET e == recordLog[j]
          pkt == packets[e.index]
          dataStart == e.start + 16
          dataEnd == dataStart + Num(e.incl_len)
      IN /\ e.outcome = "emit"
         /\ e.payloadOffset >= dataStart + 14
         /\ e.payloadOffset + Len(pkt.payload) = dataEnd
         /\ dataEnd <= Len(pcapBuffer)
         /\ pkt.payload = SubSeq(pcapBuffer, e.payloadOffset + 1, dataEnd)
         /\ pkt.length = Len(pkt.payload)
         /\ pkt.length > 16
         /\ j < Len(recordLog) => recordLog[j + 1].start = dataEnd

\* two records gave a packet each, and bytes follow the second record
C13_Witness ==
  /\ capPc = "resolved"
  /\ Len(packets) = 2
  /\ Len(recordLog) = 2
  /\ recordLog[1].index = 1
  /\ recordLog[2].index = 2
  /\ Len(packets[1].payload) # Len(packets[2].payload)
  /\ recordLog[2].start + 16 + Num(recordLog[2].incl_len) < Len(pcapBuffer)

(***************************************************************************)
(* C14.  In the App, a packet list that is not empty was computed from the *)
(* file that is selected: after handleFileChange or handleDrop selected a  *)
(* new file, the summaries of a file selected before are never stored in   *)
(* the packets state, also when handleParse was awaiting parsePcapFile for *)
(* the earlier file when the new one was selected.                         *)
(***************************************************************************)
C14_PacketsOfSelectedFile ==
  packetsState # <<>> => packetsFile = file

====
